---- MODULE Spec2Model ----
(***************************************************************************)
(* enyo/Selection: the selection-state manager for list-like widgets.      *)
(*                                                                         *)
(* A Selection object holds                                                *)
(*   selected      the hash  key -> payload  of the selected rows,         *)
(*   lastSelected  the key of the most recent setByKey(key, true, ...),    *)
(*   multi         the published flag allowing multiple selections.        *)
(* Every method runs to completion (single-threaded, synchronous), so each *)
(* public method is one action.  The methods are written as operators on a *)
(* record  [selected, lastSelected, multi, events]  so that a method that  *)
(* calls another one (select -> highlander -> deselect -> setByKey) is the *)
(* composition the source performs.  events is the list of notifications   *)
(* the call has emitted so far, in emission order.                         *)
(*                                                                         *)
(* Encoding of JavaScript values.  Row keys are the row indexes            *)
(* 0..MaxKey.  Payloads are written as the text of the JavaScript value:   *)
(* "undefined" (argument not supplied), "0" (a falsy number), "a" (a       *)
(* truthy string), "true" (the sentinel).                                  *)
(*                                                                         *)
(* Two more parts stand beside the Selection: the owner that listens to    *)
(* onSelect and onDeselect (observed), and a Control with the              *)
(* accessibility mixin (content, accessibilityLabel, accessibilityHint,    *)
(* attributes).  Each specification drives one part and leaves the others  *)
(* as created: Spec, SpecGestures and SpecObserved the Selection,          *)
(* SpecControl the control.  The alert and live parts of the mixin set     *)
(* attributes of their own (role, aria-live) and are left out.             *)
(***************************************************************************)
EXTENDS Integers, Sequences, FiniteSets, TLC

VARIABLES
    selected,       \* this.selected: the hash key -> payload
    lastSelected,   \* this.lastSelected
    multi,          \* this.multi
    events,         \* the notifications the last call emitted, in order
    op,             \* the last call: method and arguments
    pre,            \* selected, lastSelected and multi when the last call began
    earlier         \* the call before the last one and the state it began in,
                    \* kept when the two calls form a sequence worth following
                    \* (see Followed), otherwise empty

vars == <<selected, lastSelected, multi, events, op, pre, earlier>>

\* An owner of the Selection that listens to onSelect and onDeselect.
VARIABLES
    observed        \* the keys the owner shows as selected

\* A Control with the accessibility mixin.
VARIABLES
    content,            \* this.content
    accessibilityLabel, \* this.accessibilityLabel
    accessibilityHint,  \* this.accessibilityHint
    attributes,         \* the DOM attributes set through setAttribute
    did                 \* the last call made on the control

cvars == <<content, accessibilityLabel, accessibilityHint, attributes, did>>

allvars == <<vars, observed, cvars>>

\* Largest row index used as a key.
MaxKey == 2

\* Row keys handed to the methods.
Keys == 0..MaxKey

\* lastSelected before the first selection: the property was never assigned.
Undefined == -1

\* The data arguments of the calls: not supplied, a falsy value, a truthy value.
Data == {"undefined", "0", "a"}

\* JavaScript truthiness of a payload.
Truthy(d) == d \notin {"undefined", "0"}

\* this.selected = {}
EmptyHash == [k \in {} |-> "true"]

----------------------------------------------------------------------------
(* The notifications: doSelect / doDeselect carry {key, data}, doChange     *)
(* carries nothing.                                                         *)

doSelect(s, key, data) ==
    [s EXCEPT !.events = Append(@, [type |-> "select", key |-> key, data |-> data])]

doDeselect(s, key, data) ==
    [s EXCEPT !.events = Append(@, [type |-> "deselect", key |-> key, data |-> data])]

doChange(s) ==
    [s EXCEPT !.events = Append(@, [type |-> "change"])]

----------------------------------------------------------------------------
(* The methods of Selection.                                               *)

\* A clear that drops only the entry of lastSelected.
clear_lastOnly(s) ==
    [s EXCEPT !.selected = [k \in (DOMAIN @) \ {s.lastSelected} |-> @[k]]]

\* clear: this.selected = {}
clear(s) == [s EXCEPT !.selected = EmptyHash]

\* isSelected: return this.selected[key]  (the payload, or undefined)
isSelected(s, key) ==
    IF key \in DOMAIN s.selected THEN s.selected[key] ELSE "undefined"

\* delete this.selected[key]
Delete(h, key) == [k \in (DOMAIN h) \ {key} |-> h[k]]

\* this.selected[key] = value
Put(h, key, value) == [k \in (DOMAIN h) \cup {key} |-> IF k = key THEN value ELSE h[k]]

\* A setByKey that notifies a deselect only when the key had an entry.
setByKey_quiet(s, key, sel, data) ==
    IF sel
    THEN LET stored == IF Truthy(data) THEN data ELSE "true"
             s1 == [s EXCEPT !.selected = Put(@, key, stored),
                             !.lastSelected = key]
         IN  doChange(doSelect(s1, key, s1.selected[key]))
    ELSE LET was == isSelected(s, key)
             s1 == [s EXCEPT !.selected = Delete(@, key)]
         IN  doChange(IF Truthy(was) THEN doDeselect(s1, key, was) ELSE s1)

\* A setByKey that turns off a key that is already on.
setByKey_flip(s, key, sel, data) ==
    IF sel /\ ~Truthy(isSelected(s, key))
    THEN LET stored == IF Truthy(data) THEN data ELSE "true"
             s1 == [s EXCEPT !.selected = Put(@, key, stored),
                             !.lastSelected = key]
         IN  doChange(doSelect(s1, key, s1.selected[key]))
    ELSE LET was == isSelected(s, key)
             s1 == [s EXCEPT !.selected = Delete(@, key)]
         IN  doChange(doDeselect(s1, key, was))

\* A setByKey that stores any supplied data (data ?? true).
setByKey_storing(s, key, sel, data) ==
    IF sel
    THEN LET stored == IF data # "undefined" THEN data ELSE "true"
             s1 == [s EXCEPT !.selected = Put(@, key, stored),
                             !.lastSelected = key]
         IN  doChange(doSelect(s1, key, s1.selected[key]))
    ELSE LET was == isSelected(s, key)
             s1 == [s EXCEPT !.selected = Delete(@, key)]
         IN  doChange(doDeselect(s1, key, was))

\* setByKey(key, sel, data)
setByKey(s, key, sel, data) ==
    IF sel
    THEN LET stored == IF Truthy(data) THEN data ELSE "true"
             s1 == [s EXCEPT !.selected = Put(@, key, stored),
                             !.lastSelected = key]
         IN  doChange(doSelect(s1, key, s1.selected[key]))
    ELSE LET was == isSelected(s, key)
             s1 == [s EXCEPT !.selected = Delete(@, key)]
         IN  doChange(doDeselect(s1, key, was))

\* A deselect that deletes the entry itself and notifies nobody.
deselect_silent(s, key) ==
    IF Truthy(isSelected(s, key)) THEN [s EXCEPT !.selected = Delete(@, key)] ELSE s

\* A deselect without its test of isSelected.
deselect_always(s, key) ==
    setByKey(s, key, FALSE, "undefined")

\* deselect(key)
deselect(s, key) ==
    IF Truthy(isSelected(s, key)) THEN setByKey(s, key, FALSE, "undefined") ELSE s

\* A highlander with its test of multi inverted.
highlander_inverted(s) ==
    IF s.multi THEN deselect(s, s.lastSelected) ELSE s

\* highlander
highlander(s) ==
    IF ~s.multi THEN deselect(s, s.lastSelected) ELSE s

\* multiChanged, run by the published property's setter after multi changed
multiChanged(s) ==
    doChange(IF ~s.multi THEN clear(s) ELSE s)

\* A select that, in single mode, runs highlander after setByKey.
select_swapped(s, key, data) ==
    IF s.multi
    THEN setByKey(s, key, ~Truthy(isSelected(s, key)), data)
    ELSE IF ~Truthy(isSelected(s, key))
         THEN highlander(setByKey(s, key, TRUE, data))
         ELSE s

\* select(key, data)
select(s, key, data) ==
    IF s.multi
    THEN setByKey(s, key, ~Truthy(isSelected(s, key)), data)
    ELSE IF ~Truthy(isSelected(s, key))
         THEN setByKey(highlander(s), key, TRUE, data)
         ELSE s

\* A toggle that always turns the key on.
toggle_on(s, key, data) ==
    LET s1 == IF ~s.multi /\ s.lastSelected # key
              THEN deselect(s, s.lastSelected)
              ELSE s
    IN  setByKey(s1, key, TRUE, data)

\* A toggle that never deselects lastSelected.
toggle_keeping(s, key, data) ==
    setByKey(s, key, ~Truthy(isSelected(s, key)), data)

\* toggle(key, data)
toggle(s, key, data) ==
    LET s1 == IF ~s.multi /\ s.lastSelected # key
              THEN deselect(s, s.lastSelected)
              ELSE s
    IN  setByKey(s1, key, ~Truthy(isSelected(s1, key)), data)

\* getSelected: the live hash
getSelected(s) == s.selected

\* A remove that also moves the row at key down (row >= key).
remove_inclusive(s, key) ==
    LET old  == s.selected
        kept == {row \in DOMAIN old : row < key}
        down == {row \in DOMAIN old : row >= key /\ row > 0}
        newSelected == [r \in kept \cup {row - 1 : row \in down} |->
                           IF r + 1 \in down THEN old[r + 1] ELSE old[r]]
    IN  [s EXCEPT !.selected = newSelected]

\* A remove that keeps the row at key (row <= key).
remove_keeping(s, key) ==
    LET old  == s.selected
        kept == {row \in DOMAIN old : row <= key}
        down == {row \in DOMAIN old : row > key}
        newSelected == [r \in kept \cup {row - 1 : row \in down} |->
                           IF r + 1 \in down THEN old[r + 1] ELSE old[r]]
    IN  [s EXCEPT !.selected = newSelected]

\* A remove that moves lastSelected down with the rows above key.
remove_renumbering(s, key) ==
    LET old  == s.selected
        kept == {row \in DOMAIN old : row < key}
        down == {row \in DOMAIN old : row > key}
        newSelected == [r \in kept \cup {row - 1 : row \in down} |->
                           IF r \in kept THEN old[r] ELSE old[r + 1]]
    IN  [s EXCEPT !.selected = newSelected,
                  !.lastSelected = IF @ > key THEN @ - 1 ELSE @]

\* remove(key): rows below key keep their key, rows above move down by one
remove(s, key) ==
    LET old  == s.selected
        kept == {row \in DOMAIN old : row < key}
        down == {row \in DOMAIN old : row > key}
        newSelected == [r \in kept \cup {row - 1 : row \in down} |->
                           IF r \in kept THEN old[r] ELSE old[r + 1]]
    IN  [s EXCEPT !.selected = newSelected]

----------------------------------------------------------------------------
(* The owner of a Selection (the component sketched in the class comment):  *)
(* onSelect and onDeselect are both wired to a handler that renders the row *)
(* of the notification's key as selected or not.                            *)

\* The rows shown as selected after the notifications es, in order.
RECURSIVE selectDeselect(_, _)
selectDeselect(shown, es) ==
    IF es = << >> THEN shown
    ELSE LET e == Head(es)
             next == IF e.type = "select" THEN shown \cup {e.key}
                     ELSE IF e.type = "deselect" THEN shown \ {e.key}
                     ELSE shown
         IN  selectDeselect(next, Tail(es))

----------------------------------------------------------------------------
(* The accessibility mixin of Control.  Texts are strings; the JavaScript   *)
(* null handed to setAttribute is written Null, and setAttribute(name,      *)
(* null) clears the attribute.  The methods are operators on a record       *)
(* [content, accessibilityLabel, accessibilityHint, attributes].            *)

\* The texts given to content, accessibilityLabel and accessibilityHint.
Texts == {"", "x", "y"}

\* null, as an argument of setAttribute
Null == "null"

\* setAttribute(name, value): set the attribute, or clear it when value is null
setAttribute(c, name, value) ==
    [c EXCEPT !.attributes =
        IF value = Null
        THEN [n \in (DOMAIN @) \ {name} |-> @[n]]
        ELSE [n \in (DOMAIN @) \cup {name} |-> IF n = name THEN value ELSE @[n]]]

\* this.accessibilityHint ? text + ' ' + this.accessibilityHint : text
withHint(c, text) ==
    IF c.accessibilityHint # "" THEN text \o " " \o c.accessibilityHint ELSE text

\* A contentChanged without its test of accessibilityLabel.
contentChanged_unguarded(c) ==
    IF c.content # ""
    THEN setAttribute(setAttribute(c, "tabindex", "0"),
                      "aria-label", withHint(c, c.content))
    ELSE c

\* contentChanged, after the inherited handler
contentChanged(c) ==
    IF c.content # "" /\ c.accessibilityLabel = ""
    THEN setAttribute(setAttribute(c, "tabindex", "0"),
                      "aria-label", withHint(c, c.content))
    ELSE c

\* accessibilityLabelChanged
accessibilityLabelChanged(c) ==
    IF c.accessibilityLabel # ""
    THEN setAttribute(setAttribute(c, "tabindex", "0"),
                      "aria-label", withHint(c, c.accessibilityLabel))
    ELSE IF c.content # ""
    THEN setAttribute(c, "aria-label", withHint(c, c.content))
    ELSE setAttribute(
             setAttribute(c, "tabindex", IF c.accessibilityHint # "" THEN "0" ELSE Null),
             "aria-label", IF c.accessibilityHint # "" THEN c.accessibilityHint ELSE Null)

\* accessibilityHintChanged
accessibilityHintChanged(c) ==
    IF c.accessibilityLabel # ""
    THEN setAttribute(c, "aria-label", withHint(c, c.accessibilityLabel))
    ELSE IF c.content # ""
    THEN setAttribute(c, "aria-label", withHint(c, c.content))
    ELSE setAttribute(
             setAttribute(c, "tabindex", IF c.accessibilityHint # "" THEN "0" ELSE Null),
             "aria-label", IF c.accessibilityHint # "" THEN c.accessibilityHint ELSE Null)

\* initAccessibility (the label and hint parts)
initAccessibility(c) ==
    LET c1 == IF c.accessibilityLabel # "" THEN accessibilityLabelChanged(c) ELSE c
    IN  IF c1.accessibilityHint # "" THEN accessibilityHintChanged(c1) ELSE c1

\* setAccessibilityLabel(v): store v, and notify when it differs from the old one
setAccessibilityLabel(c, v) ==
    LET c1 == [c EXCEPT !.accessibilityLabel = v]
    IN  IF c.accessibilityLabel # v THEN accessibilityLabelChanged(c1) ELSE c1

\* setAccessibilityHint(v): store v, and notify when it differs from the old one
setAccessibilityHint(c, v) ==
    LET c1 == [c EXCEPT !.accessibilityHint = v]
    IN  IF c.accessibilityHint # v THEN accessibilityHintChanged(c1) ELSE c1

\* A change of the published content: store v, then contentChanged when it differs
setContent(c, v) ==
    LET c1 == [c EXCEPT !.content = v]
    IN  IF c.content # v THEN contentChanged(c1) ELSE c1

----------------------------------------------------------------------------
(* The state machine.                                                      *)

\* The object as the record the methods work on, with no notification yet.
Cur == [selected |-> selected, lastSelected |-> lastSelected,
        multi |-> multi, events |-> << >>]

\* The caller's view of a call: the method, its arguments.
Call(name, key, sel, data) == [name |-> name, key |-> key, sel |-> sel, data |-> data]

\* The two-call sequences that are followed: a select after a select that began
\* with nothing selected, a toggle after a toggle of the same key, and a
\* setByKey(key, true, data) repeated with the same arguments.
Followed(call) ==
    \/ /\ op.name = "select" /\ call.name = "select"
       /\ pre.selected = EmptyHash
    \/ /\ op.name = "toggle" /\ call.name = "toggle"
       /\ call.key = op.key
    \/ /\ op.name = "setByKey" /\ call = op
       /\ call.sel

\* One call: the object becomes s, and the call and the state before it are kept.
Becomes(s, call) ==
    /\ selected' = s.selected
    /\ lastSelected' = s.lastSelected
    /\ multi' = s.multi
    /\ events' = s.events
    /\ op' = call
    /\ pre' = [selected |-> selected, lastSelected |-> lastSelected, multi |-> multi]
    /\ earlier' = IF Followed(call) THEN <<[call |-> op, pre |-> pre]>> ELSE << >>

\* create: clear(), multi as configured (default false), lastSelected unset
Init ==
    /\ selected = EmptyHash
    /\ lastSelected = Undefined
    /\ multi \in BOOLEAN
    /\ events = << >>
    /\ op = Call("create", Undefined, FALSE, "undefined")
    /\ pre = [selected |-> EmptyHash, lastSelected |-> Undefined, multi |-> multi]
    /\ earlier = << >>

Clear ==
    Becomes(clear(Cur), Call("clear", Undefined, FALSE, "undefined"))

SetByKey ==
    \E key \in Keys, sel \in BOOLEAN, data \in Data :
        Becomes(setByKey(Cur, key, sel, data), Call("setByKey", key, sel, data))

Select ==
    \E key \in Keys, data \in Data :
        Becomes(select(Cur, key, data), Call("select", key, FALSE, data))

Deselect ==
    \E key \in Keys :
        Becomes(deselect(Cur, key), Call("deselect", key, FALSE, "undefined"))

Toggle ==
    \E key \in Keys, data \in Data :
        Becomes(toggle(Cur, key, data), Call("toggle", key, FALSE, data))

Remove ==
    \E key \in Keys :
        Becomes(remove(Cur, key), Call("remove", key, FALSE, "undefined"))

\* setMulti(v) with v different from multi: the setter stores v, then multiChanged
SetMulti ==
    Becomes(multiChanged([Cur EXCEPT !.multi = ~multi]),
            Call("setMulti", Undefined, ~multi, "undefined"))

Next ==
    \/ Clear
    \/ SetByKey
    \/ Select
    \/ Deselect
    \/ Toggle
    \/ Remove
    \/ SetMulti

----------------------------------------------------------------------------
(* The owner and the control as state.                                      *)

\* Nobody listens yet: no row is shown as selected.
Unobserved == observed = {}

\* The control as the record its methods work on.
Ctl == [content |-> content, accessibilityLabel |-> accessibilityLabel,
        accessibilityHint |-> accessibilityHint, attributes |-> attributes]

\* The control becomes c after the call named name with the argument v.
ControlBecomes(c, name, v) ==
    /\ content' = c.content
    /\ accessibilityLabel' = c.accessibilityLabel
    /\ accessibilityHint' = c.accessibilityHint
    /\ attributes' = c.attributes
    /\ did' = [name |-> name, value |-> v]

\* create with the configured content, label and hint: initAccessibility runs
\* on a control that has no attribute yet.
Created(text, label, hint) ==
    LET c == initAccessibility([content |-> text, accessibilityLabel |-> label,
                                accessibilityHint |-> hint,
                                attributes |-> [n \in {} |-> ""]])
    IN  /\ content = c.content
        /\ accessibilityLabel = c.accessibilityLabel
        /\ accessibilityHint = c.accessibilityHint
        /\ attributes = c.attributes
        /\ did = [name |-> "create", value |-> ""]

\* A control created with the defaults: no content, no label, no hint.
PlainControl == Created("", "", "")

ControlInit == \E text \in Texts, label \in Texts, hint \in Texts : Created(text, label, hint)

SetAccessibilityLabel ==
    \E v \in Texts : ControlBecomes(setAccessibilityLabel(Ctl, v), "setAccessibilityLabel", v)

SetAccessibilityHint ==
    \E v \in Texts : ControlBecomes(setAccessibilityHint(Ctl, v), "setAccessibilityHint", v)

SetContent ==
    \E v \in Texts : ControlBecomes(setContent(Ctl, v), "setContent", v)

ControlNext ==
    \/ SetAccessibilityLabel
    \/ SetAccessibilityHint
    \/ SetContent

\* The Selection alone: nobody listens, and the control is left as created.
Start == Init /\ Unobserved /\ PlainControl

\* What a call on the Selection leaves alone when nobody listens.
Apart == UNCHANGED <<observed, cvars>>

Step ==
    \/ Clear /\ Apart
    \/ SetByKey /\ Apart
    \/ Select /\ Apart
    \/ Deselect /\ Apart
    \/ Toggle /\ Apart
    \/ Remove /\ Apart
    \/ SetMulti /\ Apart

Spec == Start /\ [][Step]_allvars

\* The Selection driven only by select, deselect, toggle, clear and setMulti.
StepGestures ==
    \/ Clear /\ Apart
    \/ Select /\ Apart
    \/ Deselect /\ Apart
    \/ Toggle /\ Apart
    \/ SetMulti /\ Apart

SpecGestures == Start /\ [][StepGestures]_allvars

\* The owner hears the notifications of the call and renders the rows.
Heard ==
    /\ observed' = selectDeselect(observed, events')
    /\ UNCHANGED cvars

\* The Selection with its owner listening, driven by select, deselect, toggle
\* and setByKey, multi as configured.
StepObserved ==
    \/ SetByKey /\ Heard
    \/ Select /\ Heard
    \/ Deselect /\ Heard
    \/ Toggle /\ Heard

SpecObserved == Start /\ [][StepObserved]_allvars

\* The control alone, beside a Selection that is left as created.
ControlStart == Init /\ ~multi /\ Unobserved /\ ControlInit

ControlStep ==
    \/ SetAccessibilityLabel /\ UNCHANGED <<vars, observed>>
    \/ SetAccessibilityHint /\ UNCHANGED <<vars, observed>>
    \/ SetContent /\ UNCHANGED <<vars, observed>>

SpecControl == ControlStart /\ [][ControlStep]_allvars

TypeOK ==
    /\ DOMAIN selected \subseteq Keys
    /\ \A k \in DOMAIN selected : selected[k] \in {"true", "a"}
    /\ lastSelected \in Keys \cup {Undefined}
    /\ multi \in BOOLEAN

----------------------------------------------------------------------------
(* The properties.  In each, the last call is op, the state it began in is  *)
(* pre, its notifications are events, and the state it returned in is the   *)
(* current one.                                                             *)

\* The keys that have an entry.
SelectedKeys == DOMAIN selected

\* The last two calls were followed, the first being the method name1.
Pair(name1, name2) ==
    /\ Len(earlier) = 1
    /\ earlier[1].call.name = name1
    /\ op.name = name2

\* The places in events of the notification type for key.
Notes(type, key) ==
    {i \in DOMAIN events : events[i].type = type /\ events[i].key = key}

\* C1: single-select invariant.  Whenever multi is false the selection set
\* holds at most one key, and that key is lastSelected.
C1_SingleSelectInvariant ==
    ~multi =>
        /\ Cardinality(SelectedKeys) <= 1
        /\ \A k \in SelectedKeys : k = lastSelected

C3_SingleModeSecondSelectWins ==
    (/\ Pair("select", "select")
     /\ ~earlier[1].pre.multi
     /\ earlier[1].pre.selected = EmptyHash
     /\ earlier[1].call.key # op.key)
    =>
        /\ ~Truthy(isSelected(Cur, earlier[1].call.key))
        /\ Truthy(isSelected(Cur, op.key))
        /\ Cardinality(SelectedKeys) = 1

\* C3 witness: the two selects have run, starting with nothing selected but with
\* lastSelected already holding a key.
C3_Witness ==
    /\ Pair("select", "select")
    /\ ~earlier[1].pre.multi
    /\ earlier[1].pre.selected = EmptyHash
    /\ earlier[1].pre.lastSelected # Undefined
    /\ earlier[1].call.key # op.key
    /\ SelectedKeys = {op.key}

\* C4: after remove(key) the selection set is exactly: every entry below key
\* under the same key with the same payload, every entry above key under its
\* key minus one with the same payload, and nothing else.
C4_RemoveCompacts ==
    op.name = "remove" =>
        LET old   == pre.selected
            below == {r \in DOMAIN old : r < op.key}
            above == {r \in DOMAIN old : r > op.key}
        IN  /\ SelectedKeys = below \cup {r - 1 : r \in above}
            /\ \A r \in below : selected[r] = old[r]
            /\ \A r \in above : selected[r - 1] = old[r]

\* C4 witness: remove(key) has run on a set holding rows below, at and above
\* key, the row above carrying a payload of its own.
C4_Witness ==
    /\ op.name = "remove"
    /\ {op.key - 1, op.key, op.key + 1} \subseteq DOMAIN pre.selected
    /\ pre.selected[op.key + 1] = "a"
    /\ pre.selected[op.key] = "true"
    /\ selected = [r \in {op.key - 1, op.key} |->
                      IF r = op.key THEN "a" ELSE pre.selected[r]]

\* C5 as stated: after remove(k) of a selected key k, isSelected(k) is false.
C5_RemovedKeyNotSelected ==
    (op.name = "remove" /\ op.key \in DOMAIN pre.selected)
        => ~Truthy(isSelected(Cur, op.key))

\* C5 amended: after remove(k) of a selected key k, isSelected(k) is false
\* unless k+1 was selected before the call; then k holds the payload k+1 had.
C5_RemovedKeyHoldsRowAbove ==
    (op.name = "remove" /\ op.key \in DOMAIN pre.selected)
        => isSelected(Cur, op.key) = isSelected(pre, op.key + 1)

\* C5 witness: remove(k) has run on a selected k whose row above was not
\* selected, other rows being selected, and k is no longer selected.
C5_Witness ==
    /\ op.name = "remove"
    /\ op.key \in DOMAIN pre.selected
    /\ op.key + 1 \notin DOMAIN pre.selected
    /\ SelectedKeys # {}
    /\ ~Truthy(isSelected(Cur, op.key))

\* C6 as stated: in multi mode toggle(k) twice leaves k's entry as it was
\* before the two calls: absent, or present with the same payload.
C6_ToggleTwiceRestoresEntry ==
    (Pair("toggle", "toggle") /\ earlier[1].pre.multi)
        => isSelected(Cur, op.key) = isSelected(earlier[1].pre, op.key)

\* C6 amended: in multi mode toggle(k) twice leaves k selected if and only if
\* it was selected before the two calls; when it was, its payload is the data
\* of the second call (true when that is absent or falsy), not the payload it
\* had.
C6_ToggleTwiceRestoresMembership ==
    (Pair("toggle", "toggle") /\ earlier[1].pre.multi)
        =>
        /\ (op.key \in SelectedKeys) <=> (op.key \in DOMAIN earlier[1].pre.selected)
        /\ op.key \in SelectedKeys
               => selected[op.key] = (IF Truthy(op.data) THEN op.data ELSE "true")

\* C6 witness: two toggles of a key that carried the payload "a" have run in
\* multi mode, and the key is selected again with the payload true.
C6_Witness ==
    /\ Pair("toggle", "toggle")
    /\ earlier[1].pre.multi
    /\ isSelected(earlier[1].pre, op.key) = "a"
    /\ isSelected(Cur, op.key) = "true"

\* C7: immediately after clear() isSelected(k) is false for every key k.
C7_ClearEmpties ==
    op.name = "clear" =>
        /\ \A k \in Keys : ~Truthy(isSelected(Cur, k))
        /\ getSelected(Cur) = EmptyHash

\* C7 witness: clear() has run on a set that held two keys or more.
C7_Witness ==
    /\ op.name = "clear"
    /\ Cardinality(DOMAIN pre.selected) >= 2
    /\ SelectedKeys = {}

\* C8: in multi mode, from nothing selected, select(k1, d1) and then
\* select(k2, d2) with k1 # k2 leave getSelected() holding exactly k1 -> d1 and
\* k2 -> d2, for any supplied payloads d1 and d2.
C8_MultiSelectKeepsBothPayloads ==
    (/\ Pair("select", "select")
     /\ earlier[1].pre.multi
     /\ earlier[1].pre.selected = EmptyHash
     /\ earlier[1].call.key # op.key
     /\ earlier[1].call.data # "undefined"
     /\ op.data # "undefined")
    =>
        getSelected(Cur) =
            Put(Put(EmptyHash, earlier[1].call.key, earlier[1].call.data),
                op.key, op.data)

\* C9: in single mode, select(k2) while k1 # k2 is the selected key and
\* lastSelected = k1 emits the deselect notification for k1 before the select
\* notification for k2, and returns with the selection set {k2} and
\* lastSelected = k2.
C9_DeselectPrecedesSelect ==
    (/\ op.name = "select"
     /\ ~pre.multi
     /\ DOMAIN pre.selected = {pre.lastSelected}
     /\ pre.lastSelected # op.key)
    =>
        /\ Cardinality(Notes("deselect", pre.lastSelected)) = 1
        /\ Cardinality(Notes("select", op.key)) = 1
        /\ \A i \in Notes("deselect", pre.lastSelected) :
               \A j \in Notes("select", op.key) : i < j
        /\ SelectedKeys = {op.key}
        /\ lastSelected = op.key

\* C9 witness: such a select has run and emitted deselect, change, select,
\* change.
C9_Witness ==
    /\ op.name = "select"
    /\ ~pre.multi
    /\ DOMAIN pre.selected = {pre.lastSelected}
    /\ pre.lastSelected # op.key
    /\ Len(events) = 4
    /\ events[1].type = "deselect"
    /\ events[3].type = "select"

\* C10: setByKey(key, sel, data) emits exactly two notifications: a select
\* notification for key when sel is true, a deselect notification for key when
\* sel is false (whether or not key had an entry), and then a change
\* notification.
C10_SetByKeyNotifiesTwice ==
    op.name = "setByKey" =>
        /\ Len(events) = 2
        /\ events[1].type = (IF op.sel THEN "select" ELSE "deselect")
        /\ events[1].key = op.key
        /\ events[2] = [type |-> "change"]

\* C10 witness: setByKey(key, false) has run on a key that had no entry.
C10_Witness ==
    /\ op.name = "setByKey"
    /\ ~op.sel
    /\ op.key \notin DOMAIN pre.selected
    /\ Len(events) = 2

\* The last call emitted a change notification.
Changed == \E i \in DOMAIN events : events[i].type = "change"

\* C11: when setByKey(key, true, data), or a select or toggle that turns key
\* on, is given a data value, the payload stored for key and the data of the
\* select notification both equal it, falsy values included; they are the
\* sentinel true only when no data is supplied.
C11_SuppliedDataIsStored ==
    (op.name \in {"setByKey", "select", "toggle"} /\ Notes("select", op.key) # {})
    =>
        LET want == IF op.data = "undefined" THEN "true" ELSE op.data
        IN  /\ isSelected(Cur, op.key) = want
            /\ \A i \in Notes("select", op.key) : events[i].data = want

\* C12: deselect(key) on a key without an entry changes nothing and notifies
\* nobody; on a key with an entry it removes that entry and no other.
C12_DeselectFrame ==
    op.name = "deselect" =>
        IF op.key \in DOMAIN pre.selected
        THEN /\ SelectedKeys = (DOMAIN pre.selected) \ {op.key}
             /\ \A k \in SelectedKeys : selected[k] = pre.selected[k]
        ELSE /\ selected = pre.selected
             /\ lastSelected = pre.lastSelected
             /\ multi = pre.multi
             /\ events = << >>

\* C12 witness: deselect has run on a key without an entry while other keys
\* were selected, and nothing was notified.
C12_Witness ==
    /\ op.name = "deselect"
    /\ op.key \notin DOMAIN pre.selected
    /\ DOMAIN pre.selected # {}
    /\ selected = pre.selected
    /\ events = << >>

\* C13: setByKey(key, true, data) called twice in a row with the same
\* arguments leaves the selection set and lastSelected as the first call left
\* them; the second call only emits its notifications again.
C13_RepeatedSelectIdempotent ==
    (Pair("setByKey", "setByKey") /\ earlier[1].call = op /\ op.sel)
    =>
        /\ selected = pre.selected
        /\ lastSelected = pre.lastSelected
        /\ Len(events) = 2

\* C13 witness: the two calls have run, the first one having added the key with
\* a payload of its own.
C13_Witness ==
    /\ Pair("setByKey", "setByKey")
    /\ earlier[1].call = op
    /\ op.sel
    /\ op.data = "a"
    /\ op.key \notin DOMAIN earlier[1].pre.selected
    /\ earlier[1].pre.lastSelected # op.key
    /\ isSelected(Cur, op.key) = "a"

\* C14: every call that alters the contents of the selection set emits a
\* change notification, except clear, which emits none.
C14_ChangeUnlessCleared ==
    selected # pre.selected => (Changed <=> op.name # "clear")

\* C15: remove(key) changes neither lastSelected nor multi, also when
\* lastSelected is the removed key or lies above it.
C15_RemoveKeepsLastSelected ==
    op.name = "remove" =>
        /\ lastSelected = pre.lastSelected
        /\ multi = pre.multi

\* C15 witness: remove(key) has run with lastSelected selected and above key,
\* so that its entry moved down while lastSelected stayed.
C15_Witness ==
    /\ op.name = "remove"
    /\ pre.lastSelected > op.key
    /\ pre.lastSelected \in DOMAIN pre.selected
    /\ lastSelected = pre.lastSelected
    /\ lastSelected - 1 \in SelectedKeys

\* The aria-label attribute is text.
AriaLabelIs(text) ==
    /\ "aria-label" \in DOMAIN attributes
    /\ attributes["aria-label"] = text

\* text, followed by a space and the hint when there is a hint.
Hinted(text) ==
    IF accessibilityHint = "" THEN text ELSE text \o " " \o accessibilityHint

\* C16: whenever accessibilityLabel is not empty, aria-label is the label,
\* followed by a space and the hint when the hint is not empty; no change of
\* content overrides it.
C16_LabelHasPriority ==
    accessibilityLabel # "" => AriaLabelIs(Hinted(accessibilityLabel))

\* C16 witness: the content has just been changed to a text on a control with a
\* label and a hint, and aria-label is still label and hint.
C16_Witness ==
    /\ did.name = "setContent"
    /\ content = did.value
    /\ content # ""
    /\ accessibilityLabel # ""
    /\ accessibilityLabel # content
    /\ accessibilityHint # ""
    /\ AriaLabelIs(accessibilityLabel \o " " \o accessibilityHint)

\* C17: with select, deselect, toggle, clear and setMulti only, whenever multi
\* is false the selection set has no key other than lastSelected.
C17_GesturesKeepSingleSelect ==
    multi \/ SelectedKeys \subseteq {lastSelected}

\* C17 witness: in single mode a toggle of a new key has replaced the selected
\* one.
C17_Witness ==
    /\ op.name = "toggle"
    /\ ~pre.multi
    /\ ~multi
    /\ DOMAIN pre.selected = {pre.lastSelected}
    /\ pre.lastSelected # op.key
    /\ SelectedKeys = {op.key}
    /\ lastSelected = op.key

C19_OwnerMirrorsSelection ==
    observed = SelectedKeys

\* C19 witness: in single mode a select has replaced the selected key, and the
\* owner heard the deselect and the select.
C19_Witness ==
    /\ op.name = "select"
    /\ ~multi
    /\ Len(events) = 4
    /\ DOMAIN pre.selected = {pre.lastSelected}
    /\ observed = {op.key}

\* C20: after any call on the control, whenever accessibilityLabel is empty,
\* aria-label is the content (with the hint) when content is not empty, the
\* hint alone when only the hint is not empty, and cleared when all are empty.
C20_ContentMirrored ==
    (did.name # "create" /\ accessibilityLabel = "")
    =>
        IF content # "" THEN AriaLabelIs(Hinted(content))
        ELSE IF accessibilityHint # "" THEN AriaLabelIs(accessibilityHint)
        ELSE "aria-label" \notin DOMAIN attributes
====
